---- MODULE Spec2Model ----
(***************************************************************************)
(* A model of the cluster orchestration core of kubernetes-automation-api  *)
(* (src/api/model.py, class KubernetesCluster) and of the controller       *)
(* methods that forward to it (src/api/controller.py).                     *)
(*                                                                         *)
(* Text is a sequence of chunks: "/" and "-" are always chunks of their    *)
(* own, so that str.replace('/', '-') and string concatenation are the     *)
(* operations on sequences they are on characters.  The cluster is the     *)
(* three object stores the code writes (Deployments per namespace in list  *)
(* order, Services, ScaledObjects); every call to the cluster or to an     *)
(* external tool draws its outcome from Faults.  request, calls and result *)
(* record the last operation: its arguments, the calls it made in order,   *)
(* and what it returned or raised.                                         *)
(***************************************************************************)
EXTENDS Integers, Sequences, FiniteSets, TLC

VARIABLES connected, deployments, services, scaledobjects, request, calls, result, ops

vars == <<connected, deployments, services, scaledobjects, request, calls, result, ops>>

----------------------------------------------------------------------------
(* Bounds and inputs *)

\* Requests served in one run.
MaxOps == 4

Versions == {<<"1.2.0">>}

ImageNames == {<<"org", "/", "app">>, <<"ghcr.io", "/", "org", "/", "web">>}

Ports == {8080}

WorkloadNamespaces == {"default"}

Namespaces == {"default", "kube-system", "keda"}

\* Python's None where a name is expected, and its text in an f-string.
None == <<"<None>">>

Fmt(x) == IF x = None THEN <<"None">> ELSE x

\* An unreported replica count is the empty sequence, a reported n is <<n>>.
Null == << >>

\* Outcome of one call to the cluster, helm or the remote fetch, as the
\* environment decides it: no fault, an ApiException other than 404/409
\* (401/403/422, raised by the API client), or a failure below the API client
\* (urllib3, connection refused) that is not an ApiException.
Faults == {"ok", "rejected", "unreachable"}

\* What helm, the remote fetch and create_from_yaml can do: succeed or fail
\* (a non-zero exit, a non-2xx answer, a rejected document).
ToolFaults == {"ok", "rejected"}

ApiExceptions == {"conflict", "notfound", "rejected"}

----------------------------------------------------------------------------
(* Text helpers *)

RECURSIVE Replace(_, _, _)
Replace(s, old, new) ==
    IF s = << >> THEN << >>
    ELSE <<IF Head(s) = old THEN new ELSE Head(s)>> \o Replace(Tail(s), old, new)

----------------------------------------------------------------------------
(* Manifests built by deploy_image *)

\* str.replace with count=1: only the first "/" is replaced.
RECURSIVE ReplaceFirst(_, _, _)
ReplaceFirst(s, old, new) ==
    IF s = << >> THEN << >>
    ELSE IF Head(s) = old THEN <<new>> \o Tail(s)
    ELSE <<Head(s)>> \o ReplaceFirst(Tail(s), old, new)

deployment_name_first(image_name, version) ==
    ReplaceFirst(image_name, "/", "-") \o <<"-">> \o version

deployment_name(image_name, version) ==
    Replace(image_name, "/", "-") \o <<"-">> \o version

deployment_manifest(namespace, image_name, version, port) ==
    LET dn == deployment_name(image_name, version) IN
    [kind |-> "Deployment", name |-> dn, namespace |-> namespace,
     replicas |-> 1, matchLabels |-> dn, podLabels |-> dn,
     container |-> dn, image |-> image_name \o <<":">> \o version,
     containerPort |-> port,
     requests |-> <<"100m", "128Mi">>, limits |-> <<"500m", "512Mi">>]

service_manifest(namespace, image_name, version, port) ==
    LET dn == deployment_name(image_name, version) IN
    [kind |-> "Service", name |-> dn, namespace |-> namespace,
     selector |-> dn, port |-> port, targetPort |-> port, type |-> "NodePort"]

Triggers ==
    <<[type |-> "cpu", metricType |-> "Utilization", value |-> "80"],
      [type |-> "memory", metricType |-> "Utilization", value |-> "80"]>>

scaled_object_manifest(namespace, image_name, version) ==
    LET dn == deployment_name(image_name, version) IN
    [kind |-> "ScaledObject", name |-> dn \o <<"-", "scaledobject">>,
     namespace |-> namespace, minReplicaCount |-> 1,
     scaleTargetRef |-> dn, targetKind |-> "Deployment", triggers |-> Triggers]

\* autoscale_deployment naming its object by another suffix than deploy_image.
autoscale_manifest_hpa(namespace, dn) ==
    [kind |-> "ScaledObject", name |-> Fmt(dn) \o <<"-", "hpa">>,
     namespace |-> namespace, minReplicaCount |-> 1,
     scaleTargetRef |-> dn, targetKind |-> "Deployment", triggers |-> Triggers]

\* The ScaledObject autoscale_deployment builds: deployment_name may be None.
autoscale_manifest(namespace, dn) ==
    [kind |-> "ScaledObject", name |-> Fmt(dn) \o <<"-", "scaledobject">>,
     namespace |-> namespace, minReplicaCount |-> 1,
     scaleTargetRef |-> dn, targetKind |-> "Deployment", triggers |-> Triggers]

----------------------------------------------------------------------------
(* The cluster: what the API calls of the code do to the stores *)

Cluster == [deployments |-> deployments, services |-> services,
            scaledobjects |-> scaledobjects]

StoredDeployment(m) ==
    [manifest |-> m, ready_replicas |-> Null, available_replicas |-> Null]

FindDeployment(c, namespace, name) ==
    {i \in 1..Len(c.deployments[namespace]) :
        c.deployments[namespace][i].manifest.name = name}

Stored(c, m) ==
    CASE m.kind = "Deployment" ->
            m.namespace \in DOMAIN c.deployments
            /\ FindDeployment(c, m.namespace, m.name) # {}
      [] m.kind = "Service" ->
            \E s \in c.services : s.namespace = m.namespace /\ s.name = m.name
      [] m.kind = "ScaledObject" ->
            \E s \in c.scaledobjects : s.namespace = m.namespace /\ s.name = m.name

Put(c, m) ==
    CASE m.kind = "Deployment" ->
            [c EXCEPT !.deployments[m.namespace] = Append(@, StoredDeployment(m))]
      [] m.kind = "Service" -> [c EXCEPT !.services = @ \cup {m}]
      [] m.kind = "ScaledObject" -> [c EXCEPT !.scaledobjects = @ \cup {m}]

\* create_namespaced_deployment / create_namespaced_service /
\* create_namespaced_custom_object: create-only, 409 when the name is taken.
Create(c, m, fault) ==
    IF fault # "ok" THEN [c |-> c, outcome |-> fault]
    ELSE IF Stored(c, m) THEN [c |-> c, outcome |-> "conflict"]
    ELSE [c |-> Put(c, m), outcome |-> "created"]

CallRecord(m, outcome) ==
    [api |-> "create", kind |-> m.kind, namespace |-> m.namespace,
     name |-> m.name, outcome |-> outcome, body |-> m]

NoResult == [op |-> "none", raised |-> FALSE, exc |-> "none",
             detail |-> << >>, value |-> << >>]

Returned(op, value) ==
    [op |-> op, raised |-> FALSE, exc |-> "none", detail |-> << >>, value |-> value]

Raised(op, exc, detail) ==
    [op |-> op, raised |-> TRUE, exc |-> exc, detail |-> detail, value |-> << >>]

----------------------------------------------------------------------------
(* __init__ and connect *)

\* __init__ leaves apps_v1, core_v1 and custom_api unset: a method that uses
\* one of them before connect raises AttributeError at its first cluster call.
NotConnected(op) ==
    /\ ~connected
    /\ UNCHANGED <<connected, deployments, services, scaledobjects>>
    /\ calls' = << >>
    /\ result' = Raised(op, "AttributeError", << >>)

\* load_kube_config runs only when a context is given; when it raises, the
\* handles stay as they were.
connect(context, fault) ==
    /\ UNCHANGED <<deployments, services, scaledobjects>>
    /\ request' = [op |-> "connect", context |-> context]
    /\ calls' = << >>
    /\ IF context # None /\ fault # "ok"
       THEN /\ connected' = connected
            /\ result' = Raised("connect", "HTTPException",
                                <<"Failed to connect to the cluster: ">>)
       ELSE /\ connected' = TRUE
            /\ result' = Returned("connect", << >>)

----------------------------------------------------------------------------
(* deploy_image *)

\* The manifests in the order the try block applies them.
DeployPlan(namespace, image_name, version, port) ==
    <<deployment_manifest(namespace, image_name, version, port),
      service_manifest(namespace, image_name, version, port),
      scaled_object_manifest(namespace, image_name, version)>>

\* Each create in a try block of its own: a failed create is noted and the
\* next one still runs.
RECURSIVE ApplyAllContinue(_, _, _, _, _)
ApplyAllContinue(c, plan, faults, i, log) ==
    IF i > Len(plan)
    THEN [c |-> c, calls |-> log,
          outcome |-> IF \E j \in 1..Len(log) : log[j].outcome # "created"
                      THEN log[CHOOSE j \in 1..Len(log) :
                                  /\ log[j].outcome # "created"
                                  /\ \A k \in 1..(j - 1) : log[k].outcome = "created"].outcome
                      ELSE "created"]
    ELSE LET r == Create(c, plan[i], faults[i])
         IN ApplyAllContinue(r.c, plan, faults, i + 1,
                             Append(log, CallRecord(plan[i], r.outcome)))

\* One statement after the other inside the try block: the first create that
\* raises ends the block.
RECURSIVE ApplyAll(_, _, _, _, _)
ApplyAll(c, plan, faults, i, log) ==
    IF i > Len(plan) THEN [c |-> c, calls |-> log, outcome |-> "created"]
    ELSE LET r == Create(c, plan[i], faults[i])
             l == Append(log, CallRecord(plan[i], r.outcome))
         IN IF r.outcome = "created"
            THEN ApplyAll(r.c, plan, faults, i + 1, l)
            ELSE [c |-> r.c, calls |-> l, outcome |-> r.outcome]

\* e.body of an ApiException: the text the cluster sent, which the code
\* passes on as it is.
Body(outcome) == <<outcome>>

\* except ApiException as e: raise HTTPException(500, f"Error creating
\* deployment: {e.body}"); anything else leaves deploy_image as it is.
DeployResult(image_name, version, outcome) ==
    IF outcome = "created"
    THEN Returned("deploy_image",
                  <<"Deployment ">> \o deployment_name(image_name, version)
                      \o <<" created successfully.">>)
    ELSE IF outcome \in ApiExceptions
    THEN Raised("deploy_image", "HTTPException",
                <<"Error creating deployment: ">> \o Body(outcome))
    ELSE Raised("deploy_image", "ConnectionError", << >>)

deploy_image(namespace, image_name, version, port, faults) ==
    LET plan == DeployPlan(namespace, image_name, version, port)
        r == ApplyAll(Cluster, plan, faults, 1, << >>)
    IN /\ request' = [op |-> "deploy_image", namespace |-> namespace,
                      image_name |-> image_name, version |-> version,
                      port |-> port,
                      redeploy |-> \A i \in 1..Len(plan) : Stored(Cluster, plan[i])]
       /\ \/ NotConnected("deploy_image")
          \/ /\ connected
             /\ UNCHANGED connected
             /\ deployments' = r.c.deployments
             /\ services' = r.c.services
             /\ scaledobjects' = r.c.scaledobjects
             /\ calls' = r.calls
             /\ result' = DeployResult(image_name, version, r.outcome)

----------------------------------------------------------------------------
(* autoscale_deployment *)

\* except ApiException as e: raise HTTPException(500, f"Error creating HPA:
\* {e.body}")
AutoscaleResult(outcome) ==
    IF outcome = "created"
    THEN Returned("autoscale_deployment", <<"Autoscaling applied successfully.">>)
    ELSE IF outcome \in ApiExceptions
    THEN Raised("autoscale_deployment", "HTTPException",
                <<"Error creating HPA: ">> \o Body(outcome))
    ELSE Raised("autoscale_deployment", "ConnectionError", << >>)

\* One create of one ScaledObject, whatever deployment_name is: no list of
\* the namespace, no loop over targets.
AutoscalePlan(namespace, dn) == <<autoscale_manifest(namespace, dn)>>

autoscale_deployment(namespace, dn, faults) ==
    LET r == ApplyAll(Cluster, AutoscalePlan(namespace, dn), faults, 1, << >>)
    IN /\ request' = [op |-> "autoscale_deployment", namespace |-> namespace,
                      deployment |-> dn]
       /\ \/ NotConnected("autoscale_deployment")
          \/ /\ connected
             /\ UNCHANGED connected
             /\ deployments' = r.c.deployments
             /\ services' = r.c.services
             /\ scaledobjects' = r.c.scaledobjects
             /\ calls' = r.calls
             /\ result' = AutoscaleResult(r.outcome)

----------------------------------------------------------------------------
(* get_status *)

Read(c, namespace, name, fault) ==
    IF fault # "ok" THEN fault
    ELSE IF FindDeployment(c, namespace, name) = {} THEN "notfound"
    ELSE "found"

ReadRecord(namespace, name, outcome) ==
    [api |-> "read", kind |-> "Deployment", namespace |-> namespace,
     name |-> name, outcome |-> outcome]

\* An exception get_status does not catch leaves it as it was raised.
Uncaught(op, outcome) ==
    IF outcome \in ApiExceptions
    THEN Raised(op, "ApiException", Body(outcome))
    ELSE Raised(op, "ConnectionError", << >>)

StatusOne(c, namespace, name) ==
    LET d == c.deployments[namespace][CHOOSE i \in FindDeployment(c, namespace, name) : TRUE]
    IN [deployment |-> name, ready_replicas |-> d.ready_replicas,
        available_replicas |-> d.available_replicas]

\* "or 0" on the replica counts: an unreported count is given as 0.
StatusItemZero(d) ==
    [name |-> d.manifest.name,
     ready_replicas |-> IF d.ready_replicas = Null THEN <<0>> ELSE d.ready_replicas,
     available_replicas |-> IF d.available_replicas = Null THEN <<0>>
                            ELSE d.available_replicas]

StatusItem(d) ==
    [name |-> d.manifest.name, ready_replicas |-> d.ready_replicas,
     available_replicas |-> d.available_replicas]

StatusAll(c, namespace) ==
    [i \in 1..Len(c.deployments[namespace]) |-> StatusItem(c.deployments[namespace][i])]

get_status(namespace, deployment, fault) ==
    /\ request' = [op |-> "get_status", namespace |-> namespace,
                   deployment |-> deployment]
    /\ \/ NotConnected("get_status")
       \/ /\ connected
          /\ UNCHANGED <<connected, deployments, services, scaledobjects>>
          /\ IF deployment # None
             THEN LET o == Read(Cluster, namespace, deployment, fault) IN
                  /\ calls' = <<ReadRecord(namespace, deployment, o)>>
                  /\ result' = IF o = "found"
                               THEN Returned("get_status",
                                             <<StatusOne(Cluster, namespace, deployment)>>)
                               ELSE Uncaught("get_status", o)
             ELSE /\ calls' = <<[api |-> "list", kind |-> "Deployment",
                                 namespace |-> namespace, name |-> None,
                                 outcome |-> fault]>>
                  /\ result' = IF fault = "ok"
                               THEN Returned("get_status", StatusAll(Cluster, namespace))
                               ELSE Uncaught("get_status", fault)

----------------------------------------------------------------------------
(* verify_installation *)

MetricsServer == <<"metrics", "-", "server">>

KedaOperator == <<"keda", "-", "operator">>

\* try: read_namespaced_deployment; return True / except ApiException:
\* return False.  "raise" stands for an exception that is no ApiException.
check_deployment_exists(c, namespace, name, fault) ==
    LET o == Read(c, namespace, name, fault) IN
    IF o = "found" THEN "True"
    ELSE IF o \in ApiExceptions THEN "False"
    ELSE "raise"

verify_installation(faults) ==
    LET o1 == Read(Cluster, "kube-system", MetricsServer, faults[1])
        o2 == Read(Cluster, "keda", KedaOperator, faults[2])
        m == check_deployment_exists(Cluster, "kube-system", MetricsServer, faults[1])
        k == check_deployment_exists(Cluster, "keda", KedaOperator, faults[2])
        r1 == ReadRecord("kube-system", MetricsServer, o1)
        r2 == ReadRecord("keda", KedaOperator, o2)
    IN /\ request' = [op |-> "verify_installation"]
       /\ \/ NotConnected("verify_installation")
          \/ /\ connected
             /\ UNCHANGED <<connected, deployments, services, scaledobjects>>
             /\ IF m = "raise"
                THEN /\ calls' = <<r1>>
                     /\ result' = Uncaught("verify_installation", o1)
                ELSE IF k = "raise"
                THEN /\ calls' = <<r1, r2>>
                     /\ result' = Uncaught("verify_installation", o2)
                ELSE /\ calls' = <<r1, r2>>
                     /\ result' = Returned("verify_installation",
                                           <<[metrics_server |-> m, keda |-> k]>>)

----------------------------------------------------------------------------
(* install_dependencies *)

SystemDeployment(namespace, name) ==
    [kind |-> "Deployment", name |-> name, namespace |-> namespace,
     replicas |-> 1, matchLabels |-> name, podLabels |-> name,
     container |-> name, image |-> name, containerPort |-> 443,
     requests |-> <<"100m", "128Mi">>, limits |-> <<"500m", "512Mi">>]

ToolRecord(api, name, outcome) ==
    [api |-> api, kind |-> "Dependency", namespace |-> "", name |-> name,
     outcome |-> outcome]

\* requests.get + raise_for_status, then create_from_yaml: a failed fetch or
\* a failed create (create_from_yaml is create-only too) raises HTTPException.
apply_yaml_from_url(c, faults, n) ==
    IF faults[n + 1] # "ok"
    THEN [c |-> c, calls |-> <<ToolRecord("fetch", MetricsServer, faults[n + 1])>>,
          exc |-> "HTTPException",
          detail |-> <<"Failed to fetch YAML from URL: ">>]
    ELSE LET r == Create(c, SystemDeployment("kube-system", MetricsServer), faults[n + 2])
             l == <<ToolRecord("fetch", MetricsServer, "ok"),
                    ToolRecord("create_from_yaml", MetricsServer, r.outcome)>>
         IN IF r.outcome = "created"
            THEN [c |-> r.c, calls |-> l, exc |-> "none", detail |-> << >>]
            ELSE [c |-> c, calls |-> l, exc |-> "HTTPException",
                  detail |-> <<"Failed to apply Kubernetes manifest: ">>]

\* helm repo add, helm repo update, [the values document], helm upgrade
\* --install: a failed helm command raises HTTPException; a values document
\* that cannot be fetched puts None on the command line, a TypeError.
RECURSIVE HelmSteps(_, _, _, _, _)
HelmSteps(steps, faults, n, i, log) ==
    IF i > Len(steps) THEN [calls |-> log, exc |-> "none", detail |-> << >>]
    ELSE LET l == Append(log, ToolRecord(steps[i], KedaOperator, faults[n + i])) IN
         IF faults[n + i] = "ok" THEN HelmSteps(steps, faults, n, i + 1, l)
         ELSE IF steps[i] = "fetch_values"
         THEN [calls |-> l, exc |-> "TypeError", detail |-> << >>]
         ELSE [calls |-> l, exc |-> "HTTPException",
               detail |-> <<"Helm command failed: ">>]

ChartSteps(remoteValues) ==
    IF remoteValues
    THEN <<"helm repo add", "helm repo update", "fetch_values", "helm upgrade">>
    ELSE <<"helm repo add", "helm repo update", "helm upgrade">>

install_chart(c, remoteValues, faults, n) ==
    LET r == HelmSteps(ChartSteps(remoteValues), faults, n, 1, << >>)
        d == SystemDeployment("keda", KedaOperator)
    IN [c |-> IF r.exc = "none" /\ ~Stored(c, d) THEN Put(c, d) ELSE c,
        calls |-> r.calls, exc |-> r.exc, detail |-> r.detail]

\* create_from_yaml is handed self.api_client as it is (None before connect:
\* the client library then builds a default one), and helm does not use the
\* handles at all.  The two try blocks catch ApiException only; what apply_yaml_from_url and
\* install_chart raise is never one, and ends install_dependencies.
InstallSteps(metric_server, keda) ==
    (IF metric_server THEN <<"metrics">> ELSE << >>)
        \o (IF keda THEN <<"keda">> ELSE << >>)

RECURSIVE RunInstall(_, _, _, _, _, _, _)
RunInstall(c, steps, remoteValues, faults, i, log, installed) ==
    IF i > Len(steps)
    THEN [c |-> c, calls |-> log, exc |-> "none", detail |-> << >>,
          installed |-> installed]
    ELSE LET r == IF steps[i] = "metrics" THEN apply_yaml_from_url(c, faults, Len(log))
                  ELSE install_chart(c, remoteValues, faults, Len(log))
             msg == IF steps[i] = "metrics" THEN "Metrics Server installed successfully."
                    ELSE "KEDA installed successfully."
         IN IF r.exc = "none"
            THEN RunInstall(r.c, steps, remoteValues, faults, i + 1,
                            log \o r.calls, Append(installed, msg))
            ELSE [c |-> r.c, calls |-> log \o r.calls, exc |-> r.exc,
                  detail |-> r.detail, installed |-> installed]

install_dependencies(metric_server, keda, remoteValues, faults) ==
    LET r == RunInstall(Cluster, InstallSteps(metric_server, keda), remoteValues,
                        faults, 1, << >>, << >>)
    IN /\ UNCHANGED connected
       /\ deployments' = r.c.deployments
       /\ services' = r.c.services
       /\ scaledobjects' = r.c.scaledobjects
       /\ calls' = r.calls
       /\ request' = [op |-> "install_dependencies", metric_server |-> metric_server,
                      keda |-> keda, remoteValues |-> remoteValues]
       /\ result' = IF r.exc = "none"
                    THEN Returned("install_dependencies", r.installed)
                    ELSE Raised("install_dependencies", r.exc, r.detail)

----------------------------------------------------------------------------
(* KubernetesController: the methods whose call does not fit the method of *)
(* KubernetesCluster it names                                              *)

\* self.cluster.autoscale_deployment(namespace, deployment, scale_metric):
\* three arguments for a method of two, a TypeError before its body runs.
apply_autoscaling(namespace, deployment) ==
    /\ UNCHANGED <<connected, deployments, services, scaledobjects>>
    /\ calls' = << >>
    /\ request' = [op |-> "apply_autoscaling", namespace |-> namespace,
                   deployment |-> deployment]
    /\ result' = Raised("apply_autoscaling", "TypeError", << >>)

\* self.cluster.pause_autoscale(namespace, deployment): KubernetesCluster has
\* no such method, an AttributeError.
pause_autoscaling(namespace, deployment) ==
    /\ UNCHANGED <<connected, deployments, services, scaledobjects>>
    /\ calls' = << >>
    /\ request' = [op |-> "pause_autoscaling", namespace |-> namespace,
                   deployment |-> deployment]
    /\ result' = Raised("pause_autoscaling", "AttributeError", << >>)

----------------------------------------------------------------------------
(* The specification *)

\* Fault plans for an operation of n calls: at most one call is made to fail.
FaultPlansOver(n, F) ==
    {[i \in 1..n |-> "ok"]}
        \cup {[i \in 1..n |-> IF i = k THEN f ELSE "ok"] :
                k \in 1..n, f \in F \ {"ok"}}

FaultPlans(n) == FaultPlansOver(n, Faults)

\* The calls install_dependencies makes when none fails.
InstallCalls(metric_server, keda, remoteValues) ==
    (IF metric_server THEN 2 ELSE 0)
        + (IF keda THEN Len(ChartSteps(remoteValues)) ELSE 0)

WorkloadNames ==
    {deployment_name(i, v) : i \in ImageNames, v \in Versions}

\* One more request is served, up to MaxOps.
Tick == ops < MaxOps /\ ops' = ops + 1

\* A Deployment the cluster runs before the program touches it, with the
\* replica counts its status reports.
CoreDNS ==
    [manifest |-> SystemDeployment("kube-system", <<"coredns">>),
     ready_replicas |-> <<2>>, available_replicas |-> <<1>>]

Init ==
    /\ connected = FALSE
    /\ deployments = [ns \in Namespaces |->
                        IF ns = "kube-system" THEN <<CoreDNS>> ELSE << >>]
    /\ services = {}
    /\ scaledobjects = {}
    /\ request = [op |-> "none"]
    /\ calls = << >>
    /\ result = NoResult
    /\ ops = 0

Connect ==
    /\ Tick
    /\ \E context \in {None, <<"minikube">>}, fault \in ToolFaults :
        connect(context, fault)

DeployImage ==
    /\ Tick
    /\ \E namespace \in WorkloadNamespaces, image_name \in ImageNames,
       version \in Versions, port \in Ports, faults \in FaultPlans(3) :
        deploy_image(namespace, image_name, version, port, faults)

AutoscaleDeployment ==
    /\ Tick
    /\ \E namespace \in WorkloadNamespaces, dn \in WorkloadNames \cup {None},
       faults \in FaultPlans(1) :
        autoscale_deployment(namespace, dn, faults)

GetStatus ==
    /\ Tick
    /\ \E namespace \in Namespaces,
       deployment \in WorkloadNames \cup {None},
       fault \in Faults :
        get_status(namespace, deployment, fault)

VerifyInstallation ==
    /\ Tick
    /\ \E faults \in FaultPlans(2) : verify_installation(faults)

InstallDependencies ==
    /\ Tick
    /\ \E metric_server \in BOOLEAN, keda \in BOOLEAN, remoteValues \in BOOLEAN :
      \E faults \in FaultPlansOver(InstallCalls(metric_server, keda, remoteValues),
                                   ToolFaults) :
        install_dependencies(metric_server, keda, remoteValues, faults)

ApplyAutoscaling ==
    /\ Tick
    /\ \E namespace \in WorkloadNamespaces, deployment \in WorkloadNames \cup {None} :
        apply_autoscaling(namespace, deployment)

PauseAutoscaling ==
    /\ Tick
    /\ \E namespace \in WorkloadNamespaces, deployment \in WorkloadNames \cup {None} :
        pause_autoscaling(namespace, deployment)

Next ==
    \/ Connect
    \/ DeployImage
    \/ AutoscaleDeployment
    \/ GetStatus
    \/ VerifyInstallation
    \/ InstallDependencies
    \/ ApplyAutoscaling
    \/ PauseAutoscaling

Spec == Init /\ [][Next]_vars

----------------------------------------------------------------------------
(* Properties *)

HasDeployment(namespace, name) ==
    \E i \in 1..Len(deployments[namespace]) :
        deployments[namespace][i].manifest.name = name

HasService(namespace, name) ==
    \E x \in services : x.namespace = namespace /\ x.name = name

HasScaledObject(namespace, name) ==
    \E x \in scaledobjects : x.namespace = namespace /\ x.name = name

Has(kind, namespace, name) ==
    CASE kind = "Deployment" -> HasDeployment(namespace, name)
      [] kind = "Service" -> HasService(namespace, name)
      [] kind = "ScaledObject" -> HasScaledObject(namespace, name)

ScalersOf(namespace, name) ==
    {x \in scaledobjects : x.namespace = namespace /\ x.scaleTargetRef = name}

ApplyOrder == <<"Deployment", "Service", "ScaledObject">>

Failed(i) == calls[i].outcome # "created"

\* C1: deploy_image applies the Deployment, then the Service, then the
\* ScaledObject; a resource is applied only after the one before it was
\* created, nothing is applied after a failed apply, the call returns
\* normally exactly when all three were created, and whatever was created
\* is still in the cluster when the call ends, failed or not.
C1_DeployOrder ==
    request.op = "deploy_image" =>
        /\ Len(calls) <= 3
        /\ \A i \in 1..Len(calls) :
              /\ calls[i].api = "create"
              /\ calls[i].kind = ApplyOrder[i]
              /\ i > 1 => ~Failed(i - 1)
              /\ ~Failed(i) => Has(calls[i].kind, calls[i].namespace, calls[i].name)
        /\ ~result.raised <=> (Len(calls) = 3 /\ ~Failed(3))

\* A partial deployment: the ScaledObject apply failed after the Deployment
\* and the Service were created, and both are still there.
C1_Witness ==
    /\ request.op = "deploy_image"
    /\ result.raised
    /\ Len(calls) = 3
    /\ Failed(3)
    /\ HasDeployment(request.namespace, calls[1].name)
    /\ HasService(request.namespace, calls[2].name)

ProbeValue(i) ==
    IF i = 1 THEN result.value[1].metrics_server ELSE result.value[1].keda

\* C2: verify_installation gives False for a probe whose read answers
\* not-found, and raises (never returns) when a read fails in any other way,
\* for the metrics-server probe and for the keda-operator probe.
C2_VerifyPropagatesReadFailure ==
    request.op = "verify_installation" =>
        \A i \in 1..Len(calls) :
            /\ calls[i].outcome \in {"rejected", "unreachable"} => result.raised
            /\ (calls[i].outcome = "notfound" /\ ~result.raised) => ProbeValue(i) = "False"

Attempted(name) == \E i \in 1..Len(calls) : calls[i].name = name

Succeeded(api, name) ==
    \E i \in 1..Len(calls) :
        calls[i].api = api /\ calls[i].name = name /\ calls[i].outcome \in {"ok", "created"}

InReport(msg) == \E i \in 1..Len(result.value) : result.value[i] = msg

\* C3: install_dependencies asked for both dependencies attempts both even
\* when one fails, and its report lists the one that was installed.
C3_InstallPartialSuccess ==
    (request.op = "install_dependencies" /\ request.metric_server /\ request.keda) =>
        /\ Attempted(MetricsServer)
        /\ Attempted(KedaOperator)
        /\ Succeeded("create_from_yaml", MetricsServer)
              => InReport("Metrics Server installed successfully.")
        /\ Succeeded("helm upgrade", KedaOperator)
              => InReport("KEDA installed successfully.")

\* C4: an autoscaling call with the deployment name omitted makes one apply
\* for every Deployment listed in the namespace, each on its own: a target
\* whose apply succeeded has its scaling resource whatever happened to the
\* others.
C4_AutoscaleEveryTarget ==
    (/\ request.op \in {"autoscale_deployment", "apply_autoscaling"}
     /\ request.deployment = None
     /\ connected) =>
        \A i \in 1..Len(deployments[request.namespace]) :
            LET d == deployments[request.namespace][i].manifest.name IN
            \E j \in 1..Len(calls) :
                /\ calls[j].kind = "ScaledObject"
                /\ calls[j].body.scaleTargetRef = d
                /\ ~Failed(j) => ScalersOf(request.namespace, d) # {}

\* C5: pause_autoscaling on a target without a scaling resource returns
\* normally, and after a normal return no scaling resource targets the
\* Deployment.
C5_PauseIsNoOpWithoutScaler ==
    (request.op = "pause_autoscaling" /\ request.deployment # None /\ connected) =>
        /\ ScalersOf(request.namespace, request.deployment) = {} => ~result.raised
        /\ ~result.raised => ScalersOf(request.namespace, request.deployment) = {}

\* C6: deploy_image called again for a workload whose Deployment, Service and
\* ScaledObject are already in the cluster meets no already-exists failure
\* and returns normally, the three resources still in the cluster.
C6_RedeployIsUpsert ==
    (request.op = "deploy_image" /\ request.redeploy) =>
        /\ \A i \in 1..Len(calls) : calls[i].outcome # "conflict"
        /\ ~result.raised
        /\ HasDeployment(request.namespace,
                         deployment_name(request.image_name, request.version))

FailureOutcomes == (ApiExceptions \cup Faults) \ {"ok"}

\* C7: the failure deploy_image reports for a failed Service or ScaledObject
\* apply differs from every failure it reports when the Deployment apply
\* fails.
C7_FailureNamesResource ==
    (/\ request.op = "deploy_image"
     /\ result.raised
     /\ Len(calls) > 0
     /\ calls[Len(calls)].kind \in {"Service", "ScaledObject"}) =>
        \A o \in FailureOutcomes :
            result # DeployResult(request.image_name, request.version, o)

IsDerivedName(n, image_name, version) ==
    /\ Len(n) = Len(image_name) + 1 + Len(version)
    /\ \A i \in 1..Len(image_name) :
          n[i] = IF image_name[i] = "/" THEN "-" ELSE image_name[i]
    /\ n[Len(image_name) + 1] = "-"
    /\ \A j \in 1..Len(version) : n[Len(image_name) + 1 + j] = version[j]

\* C8: the Deployment and the Service deploy_image builds are both named by
\* the image name with every "/" turned into "-", then "-" and the version;
\* the Service selects the Deployment's pod label; the ScaledObject is named
\* that name plus "-scaledobject" and targets the Deployment of that name.
\* org/app at 1.2.0 gives org-app-1.2.0 and org-app-1.2.0-scaledobject.
C8_DerivedNames ==
    request.op = "deploy_image" =>
        \A i \in 1..Len(calls) :
            LET b == calls[i].body
                d == calls[1].body
            IN /\ b.kind = "Deployment" =>
                    /\ IsDerivedName(b.name, request.image_name, request.version)
                    /\ b.podLabels = b.name
                    /\ b.matchLabels = b.name
                    /\ (request.image_name = <<"org", "/", "app">>
                        /\ request.version = <<"1.2.0">>)
                          => b.name = <<"org", "-", "app", "-", "1.2.0">>
               /\ b.kind = "Service" =>
                    /\ IsDerivedName(b.name, request.image_name, request.version)
                    /\ b.name = d.name
                    /\ b.selector = d.podLabels
               /\ b.kind = "ScaledObject" =>
                    /\ IsDerivedName(d.name, request.image_name, request.version)
                    /\ b.name = d.name \o <<"-", "scaledobject">>
                    /\ b.scaleTargetRef = d.name
                    /\ b.targetKind = "Deployment"
                    /\ (request.image_name = <<"org", "/", "app">>
                        /\ request.version = <<"1.2.0">>)
                          => b.name = <<"org", "-", "app", "-", "1.2.0", "-", "scaledobject">>

\* All three manifests of an image name with two "/" were built and applied.
C8_Witness ==
    /\ request.op = "deploy_image"
    /\ request.image_name = <<"ghcr.io", "/", "org", "/", "web">>
    /\ Len(calls) = 3
    /\ ~result.raised

\* C9: get_status without a deployment name returns one record for each
\* Deployment of the namespace, in list order, with that Deployment's name
\* and its ready and available replica counts as the cluster reports them,
\* an unreported count staying unreported.
C9_StatusAll ==
    (request.op = "get_status" /\ request.deployment = None /\ ~result.raised) =>
        /\ Len(result.value) = Len(deployments[request.namespace])
        /\ \A i \in 1..Len(result.value) :
              LET d == deployments[request.namespace][i] IN
              /\ result.value[i].name = d.manifest.name
              /\ result.value[i].ready_replicas = d.ready_replicas
              /\ result.value[i].available_replicas = d.available_replicas

\* A listing of two Deployments, one with reported counts and one without.
C9_Witness ==
    /\ request.op = "get_status"
    /\ request.deployment = None
    /\ ~result.raised
    /\ Len(result.value) >= 2
    /\ \E i \in 1..Len(result.value) : result.value[i].ready_replicas = Null
    /\ \E i \in 1..Len(result.value) : result.value[i].ready_replicas # Null

\* C10: whatever deploy_image and autoscale_deployment calls were made, no
\* Deployment has more than one scaling resource targeting it.
C10_OneScalerPerDeployment ==
    \A namespace \in Namespaces :
        \A i \in 1..Len(deployments[namespace]) :
            Cardinality(ScalersOf(namespace, deployments[namespace][i].manifest.name)) <= 1

\* A second apply for a Deployment that already has its scaling resource.
C10_Witness ==
    /\ request.op = "autoscale_deployment"
    /\ request.deployment # None
    /\ HasDeployment(request.namespace, request.deployment)
    /\ Len(calls) = 1
    /\ calls[1].outcome = "conflict"
    /\ Cardinality(ScalersOf(request.namespace, request.deployment)) = 1

====
